---- MODULE Spec2Model ----
(***************************************************************************)
(* The boxing application: the boxer repository (boxers_model.py) and the  *)
(* ring (ring_model.py).                                                    *)
(*                                                                          *)
(* Numbers with a fraction are kept in fixed point:                        *)
(*   - a fighting skill is kept in tenths (reach / 10 is exact for the     *)
(*     whole-number reaches used here);                                    *)
(*   - a probability (the random draw, the normalized delta) is kept in    *)
(*     units of 1 / Scale; math.e ** (-delta) is read from a table and is  *)
(*     0 from delta = 10 on, so that the normalized delta is then 1.0, as  *)
(*     it is in floating point for a large delta.                          *)
(***************************************************************************)
EXTENDS Integers, Sequences, FiniteSets, TLC

VARIABLES
    boxers,    \* the boxers table: id -> row, for the ids that have a row
    nextId,    \* the identifier the store gives to the next inserted row
    ring,      \* RingModel.ring: the list of occupants
    op,        \* name of the operation that has just run ("none": none has)
    args,      \* its arguments
    result,    \* how it ended: [kind, msg, value]
    calls,     \* the calls it issued to collaborators, in order
    prev,      \* the table and the ring as they were when it was called
    hist,      \* what the callers did: the arguments each stored row was
               \* created with, and the ids whose row was deleted
    procs      \* the create_boxer calls in progress, one per connection

vars == <<boxers, nextId, ring, op, args, result, calls, prev, hist, procs>>

----------------------------------------------------------------------------
(* Bounds of the model *)

\* identifiers the store hands out are 1..MaxId
MaxId == 2

\* a row's fight count is explored up to MaxFights
MaxFights == 2

\* get_weight_class is applied to the weights -MaxWeight..MaxWeight
MaxWeight == 230

\* get_fighting_skill is applied to boxers of the ages 1..MaxSkillAge
MaxSkillAge == 45

(* Program constants *)

MinWeight == 125
MinAge == 18
MaxAge == 40
HeavyMin == 203
MiddleMin == 166
LightMin == 133
YoungAge == 25
OldAge == 35
RingCapacity == 2

Ids == 1..MaxId

----------------------------------------------------------------------------
(* Results of a call *)

None == "None"

Ok(v) == [kind |-> "ok", msg |-> "", value |-> v]

Raise(k, m) == [kind |-> k, msg |-> m, value |-> None]

ValueError(m) == Raise("ValueError", m)

TypeError(m) == Raise("TypeError", m)

\* sqlite3.Error raised by the store and re-raised unchanged
StorageError == Raise("sqlite3.Error", "database error")

(* Messages; a value a message quotes is among the arguments of the call *)

NotFullMsg == "There must be two boxers to start a fight."

RingFullMsg == "Ring is full, cannot add more boxers."

NotBoxerMsg == "Invalid type: Expected 'Boxer', got '{type}'"

NotFoundMsg == "Boxer with ID {boxer_id} not found."

NameNotFoundMsg == "Boxer '{boxer_name}' not found."

ExistsMsg == "Boxer with name '{name}' already exists"

BadSortMsg == "Invalid sort_by parameter: {sort_by}"

(* Statements sent to the store: cursor.execute(statement), conn.commit() *)

Execute(stmt) == <<"execute", stmt>>

Commit == <<"commit">>

SelectName == Execute("SELECT 1 FROM boxers WHERE name = ?")

InsertBoxer == Execute("INSERT INTO boxers (name, weight, height, reach, age)")

SelectId == Execute("SELECT id FROM boxers WHERE id = ?")

UpdateWin == Execute("UPDATE boxers SET fights = fights + 1, wins = wins + 1")

UpdateLoss == Execute("UPDATE boxers SET fights = fights + 1")

----------------------------------------------------------------------------
(* len(name), for the names used *)

NameLen(name) ==
    CASE name = "" -> 0
      [] name = "Ali" -> 3
      [] name = "Bob" -> 3
      [] name = "Dmitri" -> 6

----------------------------------------------------------------------------
(* boxers_model.py *)

InvalidWeightClass == "ValueError"

\* get_weight_class with the first limit read as a strict one
get_weight_class_strict_heavy(weight) ==
    IF weight > HeavyMin THEN "HEAVYWEIGHT"
    ELSE IF weight >= MiddleMin THEN "MIDDLEWEIGHT"
    ELSE IF weight >= LightMin THEN "LIGHTWEIGHT"
    ELSE IF weight >= MinWeight THEN "FEATHERWEIGHT"
    ELSE InvalidWeightClass

\* InvalidWeightClass: the ValueError raised for a weight under 125
get_weight_class(weight) ==
    IF weight >= HeavyMin THEN "HEAVYWEIGHT"
    ELSE IF weight >= MiddleMin THEN "MIDDLEWEIGHT"
    ELSE IF weight >= LightMin THEN "LIGHTWEIGHT"
    ELSE IF weight >= MinWeight THEN "FEATHERWEIGHT"
    ELSE InvalidWeightClass

\* the Boxer dataclass without its __post_init__: weight_class is left unset
Boxer_without_post_init(id, name, weight, height, reach, age) ==
    [type |-> "Boxer", id |-> id, name |-> name, weight |-> weight,
     height |-> height, reach |-> reach, age |-> age,
     weight_class |-> None]

\* the Boxer dataclass: __post_init__ derives weight_class from weight
Boxer(id, name, weight, height, reach, age) ==
    [type |-> "Boxer", id |-> id, name |-> name, weight |-> weight,
     height |-> height, reach |-> reach, age |-> age,
     weight_class |-> get_weight_class(weight)]

\* a row of the boxers table; fights and wins default to 0
Row(name, weight, height, reach, age) ==
    [name |-> name, weight |-> weight, height |-> height, reach |-> reach,
     age |-> age, fights |-> 0, wins |-> 0]

\* SELECT id, name, weight, height, reach, age ... -> Boxer(...)
BoxerOfRow(id, row) ==
    Boxer(id, row.name, row.weight, row.height, row.reach, row.age)

HasId(db, id) == id \in DOMAIN db

HasName(db, name) == \E i \in DOMAIN db : db[i].name = name

\* the checks of create_boxer without the upper limit of the age
validate_boxer_no_max_age(weight, height, reach, age) ==
    IF weight < MinWeight THEN
        ValueError("Invalid weight: {weight}. Must be at least 125.")
    ELSE IF height <= 0 THEN
        ValueError("Invalid height: {height}. Must be greater than 0.")
    ELSE IF reach <= 0 THEN
        ValueError("Invalid reach: {reach}. Must be greater than 0.")
    ELSE IF ~(MinAge <= age) THEN
        ValueError("Invalid age: {age}. Must be between 18 and 40.")
    ELSE Ok(None)

(* The checks create_boxer makes on its arguments before it opens the     *)
(* store, in the order it makes them.                                     *)
validate_boxer(weight, height, reach, age) ==
    IF weight < MinWeight THEN
        ValueError("Invalid weight: {weight}. Must be at least 125.")
    ELSE IF height <= 0 THEN
        ValueError("Invalid height: {height}. Must be greater than 0.")
    ELSE IF reach <= 0 THEN
        ValueError("Invalid reach: {reach}. Must be greater than 0.")
    ELSE IF ~(MinAge <= age /\ age <= MaxAge) THEN
        ValueError("Invalid age: {age}. Must be between 18 and 40.")
    ELSE Ok(None)

(* The table's schema is not part of the sources: names are unique in    *)
(* the table, so the store raises sqlite3.IntegrityError for an INSERT of *)
(* a name that has a row.                                                 *)
IntegrityError(db, name) == \E i \in DOMAIN db : db[i].name = name

\* the INSERT of create_boxer with no handler for the IntegrityError, which
\* then leaves through the handler of sqlite3.Error
insert_boxer_reraising(db, nid, name, weight, height, reach, age) ==
    IF IntegrityError(db, name) THEN
        [db |-> db, nid |-> nid, result |-> StorageError,
         calls |-> <<InsertBoxer>>]
    ELSE
        [db |-> [i \in DOMAIN db \cup {nid} |->
                    IF i = nid THEN Row(name, weight, height, reach, age)
                    ELSE db[i]],
         nid |-> nid + 1,
         result |-> Ok(None),
         calls |-> <<InsertBoxer, Commit>>]

(* The INSERT of create_boxer and its commit; create_boxer turns the      *)
(* store's IntegrityError into the 'already exists' ValueError. The store *)
(* gives the new row the identifier nid, never one it gave before.        *)
insert_boxer(db, nid, name, weight, height, reach, age) ==
    IF IntegrityError(db, name) THEN
        [db |-> db, nid |-> nid, result |-> ValueError(ExistsMsg),
         calls |-> <<InsertBoxer>>]
    ELSE
        [db |-> [i \in DOMAIN db \cup {nid} |->
                    IF i = nid THEN Row(name, weight, height, reach, age)
                    ELSE db[i]],
         nid |-> nid + 1,
         result |-> Ok(None),
         calls |-> <<InsertBoxer, Commit>>]

\* create_boxer writing over the row that has the name
create_boxer_replacing(db, nid, name, weight, height, reach, age, dbErr) ==
    IF validate_boxer(weight, height, reach, age) # Ok(None) THEN
        [db |-> db, nid |-> nid,
         result |-> validate_boxer(weight, height, reach, age),
         calls |-> << >>]
    ELSE IF dbErr THEN
        [db |-> db, nid |-> nid, result |-> StorageError, calls |-> << >>]
    ELSE IF HasName(db, name) THEN
        [db |-> [i \in DOMAIN db |->
                    IF db[i].name = name
                    THEN Row(name, weight, height, reach, age) ELSE db[i]],
         nid |-> nid, result |-> Ok(None),
         calls |-> <<InsertBoxer, Commit>>]
    ELSE
        LET ins == insert_boxer(db, nid, name, weight, height, reach, age)
        IN  [ins EXCEPT !.calls = <<SelectName>> \o @]

(* create_boxer: validation, then the duplicate check, then the insert.   *)
(* dbErr: the store raises sqlite3.Error when the call opens it.          *)
(* calls: the statements the call sends to the store.                     *)
create_boxer(db, nid, name, weight, height, reach, age, dbErr) ==
    IF validate_boxer(weight, height, reach, age) # Ok(None) THEN
        [db |-> db, nid |-> nid,
         result |-> validate_boxer(weight, height, reach, age),
         calls |-> << >>]
    ELSE IF dbErr THEN
        [db |-> db, nid |-> nid, result |-> StorageError, calls |-> << >>]
    ELSE IF HasName(db, name) THEN
        [db |-> db, nid |-> nid, result |-> ValueError(ExistsMsg),
         calls |-> <<SelectName>>]
    ELSE
        LET ins == insert_boxer(db, nid, name, weight, height, reach, age)
        IN  [ins EXCEPT !.calls = <<SelectName>> \o @]

\* delete_boxer finding the row and not sending its DELETE
delete_boxer_keeping(db, boxer_id, dbErr) ==
    IF dbErr THEN
        [db |-> db, result |-> StorageError]
    ELSE IF ~HasId(db, boxer_id) THEN
        [db |-> db, result |-> ValueError(NotFoundMsg)]
    ELSE
        [db |-> db, result |-> Ok(None)]

delete_boxer(db, boxer_id, dbErr) ==
    IF dbErr THEN
        [db |-> db, result |-> StorageError]
    ELSE IF ~HasId(db, boxer_id) THEN
        [db |-> db, result |-> ValueError(NotFoundMsg)]
    ELSE
        [db |-> [i \in DOMAIN db \ {boxer_id} |-> db[i]], result |-> Ok(None)]

\* update_boxer_stats counting a win for a loss too
update_boxer_stats_win_on_loss(db, boxer_id, res, dbErr) ==
    IF res \notin {"win", "loss"} THEN
        [db |-> db,
         result |-> ValueError("Invalid result: {result}. Expected 'win' or 'loss'."),
         calls |-> << >>]
    ELSE IF dbErr THEN
        [db |-> db, result |-> StorageError, calls |-> << >>]
    ELSE IF ~HasId(db, boxer_id) THEN
        [db |-> db, result |-> ValueError(NotFoundMsg), calls |-> <<SelectId>>]
    ELSE
        [db |-> [db EXCEPT ![boxer_id].fights = @ + 1, ![boxer_id].wins = @ + 1],
         result |-> Ok(None),
         calls |-> <<SelectId, UpdateWin, Commit>>]

\* update_boxer_stats leaving the fight count alone when it counts a win
update_boxer_stats_wins_only(db, boxer_id, res, dbErr) ==
    IF res \notin {"win", "loss"} THEN
        [db |-> db,
         result |-> ValueError("Invalid result: {result}. Expected 'win' or 'loss'."),
         calls |-> << >>]
    ELSE IF dbErr THEN
        [db |-> db, result |-> StorageError, calls |-> << >>]
    ELSE IF ~HasId(db, boxer_id) THEN
        [db |-> db, result |-> ValueError(NotFoundMsg), calls |-> <<SelectId>>]
    ELSE IF res = "win" THEN
        [db |-> [db EXCEPT ![boxer_id].wins = @ + 1],
         result |-> Ok(None),
         calls |-> <<SelectId, UpdateWin, Commit>>]
    ELSE
        [db |-> [db EXCEPT ![boxer_id].fights = @ + 1],
         result |-> Ok(None),
         calls |-> <<SelectId, UpdateLoss, Commit>>]

\* update_boxer_stats sending its UPDATE without looking for the row first
update_boxer_stats_unchecked(db, boxer_id, res, dbErr) ==
    IF res \notin {"win", "loss"} THEN
        [db |-> db,
         result |-> ValueError("Invalid result: {result}. Expected 'win' or 'loss'."),
         calls |-> << >>]
    ELSE IF dbErr THEN
        [db |-> db, result |-> StorageError, calls |-> << >>]
    ELSE IF ~HasId(db, boxer_id) THEN
        [db |-> db, result |-> Ok(None),
         calls |-> <<IF res = "win" THEN UpdateWin ELSE UpdateLoss, Commit>>]
    ELSE IF res = "win" THEN
        [db |-> [db EXCEPT ![boxer_id].fights = @ + 1, ![boxer_id].wins = @ + 1],
         result |-> Ok(None),
         calls |-> <<UpdateWin, Commit>>]
    ELSE
        [db |-> [db EXCEPT ![boxer_id].fights = @ + 1],
         result |-> Ok(None),
         calls |-> <<UpdateLoss, Commit>>]

(* update_boxer_stats. dbErr: the store raises sqlite3.Error when the     *)
(* call opens it. calls: the statements the call sends to the store.      *)
update_boxer_stats(db, boxer_id, res, dbErr) ==
    IF res \notin {"win", "loss"} THEN
        [db |-> db,
         result |-> ValueError("Invalid result: {result}. Expected 'win' or 'loss'."),
         calls |-> << >>]
    ELSE IF dbErr THEN
        [db |-> db, result |-> StorageError, calls |-> << >>]
    ELSE IF ~HasId(db, boxer_id) THEN
        [db |-> db, result |-> ValueError(NotFoundMsg), calls |-> <<SelectId>>]
    ELSE IF res = "win" THEN
        [db |-> [db EXCEPT ![boxer_id].fights = @ + 1, ![boxer_id].wins = @ + 1],
         result |-> Ok(None),
         calls |-> <<SelectId, UpdateWin, Commit>>]
    ELSE
        [db |-> [db EXCEPT ![boxer_id].fights = @ + 1],
         result |-> Ok(None),
         calls |-> <<SelectId, UpdateLoss, Commit>>]

(* get_boxer_by_id and get_boxer_by_name. dbErr: the store raises         *)
(* sqlite3.Error during the call.                                         *)
get_boxer_by_id(db, boxer_id, dbErr) ==
    IF dbErr THEN StorageError
    ELSE IF HasId(db, boxer_id) THEN Ok(BoxerOfRow(boxer_id, db[boxer_id]))
    ELSE ValueError(NotFoundMsg)

\* fetchone() gives a row with that name
get_boxer_by_name(db, boxer_name, dbErr) ==
    IF dbErr THEN StorageError
    ELSE IF HasName(db, boxer_name) THEN
        LET id == CHOOSE i \in DOMAIN db : db[i].name = boxer_name
        IN  Ok(BoxerOfRow(id, db[id]))
    ELSE ValueError(NameNotFoundMsg)

(* round(wins * 1.0 / fights * 100, 1), in tenths of a percent. A tie     *)
(* between two tenths needs a fight count that is a multiple of 16.       *)
win_pct(row) == (2000 * row.wins + row.fights) \div (2 * row.fights)

\* one dictionary of the leaderboard
LeaderboardEntry(id, row) ==
    [id |-> id, name |-> row.name, weight |-> row.weight, height |-> row.height,
     reach |-> row.reach, age |-> row.age,
     weight_class |-> get_weight_class(row.weight),
     fights |-> row.fights, wins |-> row.wins, win_pct |-> win_pct(row)]

\* ORDER BY wins, ORDER BY win_pct, with the DESC left out
OrderedDesc_ascending(sort_by, a, b) ==
    IF sort_by = "wins" THEN a.wins <= b.wins
    ELSE a.wins * b.fights <= b.wins * a.fights

\* ORDER BY wins DESC, ORDER BY win_pct DESC: a is not after b
OrderedDesc(sort_by, a, b) ==
    IF sort_by = "wins" THEN a.wins >= b.wins
    ELSE a.wins * b.fights >= b.wins * a.fights

(* The rows the store may return for the query of get_leaderboard: the    *)
(* ids of the rows with fights > 0, in an order that ORDER BY ... DESC    *)
(* allows; rows with equal keys come in any order.                        *)
LeaderboardRows(db, sort_by) ==
    LET S == { i \in DOMAIN db : db[i].fights > 0 }
    IN  { q \in [1..Cardinality(S) -> S] :
            /\ \A j, k \in DOMAIN q : j # k => q[j] # q[k]
            /\ \A j, k \in DOMAIN q :
                  j < k => OrderedDesc(sort_by, db[q[j]], db[q[k]]) }

(* get_leaderboard: the set of results the call may end with.             *)
get_leaderboard(db, sort_by, dbErr) ==
    IF sort_by \notin {"win_pct", "wins"} THEN { ValueError(BadSortMsg) }
    ELSE IF dbErr THEN { StorageError }
    ELSE { Ok([k \in DOMAIN q |-> LeaderboardEntry(q[k], db[q[k]])]) :
              q \in LeaderboardRows(db, sort_by) }

----------------------------------------------------------------------------
(* ring_model.py *)

\* get_fighting_skill taking an age of 35 for an old one
get_fighting_skill_old_at_35(boxer) ==
    LET age_modifier == IF boxer.age < YoungAge THEN -1
                        ELSE IF boxer.age >= OldAge THEN -2 ELSE 0
    IN  10 * (boxer.weight * NameLen(boxer.name)) + boxer.reach + 10 * age_modifier

\* skill in tenths: weight * len(name) + reach / 10 + age_modifier
get_fighting_skill(boxer) ==
    LET age_modifier == IF boxer.age < YoungAge THEN -1
                        ELSE IF boxer.age > OldAge THEN -2 ELSE 0
    IN  10 * (boxer.weight * NameLen(boxer.name)) + boxer.reach + 10 * age_modifier

Abs(x) == IF x < 0 THEN -x ELSE x

\* math.e ** (-d / 10) in units of 1 / Scale, rounded to the nearest unit
ExpTable ==
    <<10000, 9048, 8187, 7408, 6703, 6065, 5488, 4966, 4493, 4066,
      3679, 3329, 3012, 2725, 2466, 2231, 2019, 1827, 1653, 1496,
      1353, 1225, 1108, 1003, 907, 821, 743, 672, 608, 550,
      498, 450, 408, 369, 334, 302, 273, 247, 224, 202,
      183, 166, 150, 136, 123, 111, 101, 91, 82, 74,
      67, 61, 55, 50, 45, 41, 37, 33, 30, 27,
      25, 22, 20, 18, 17, 15, 14, 12, 11, 10,
      9, 8, 7, 7, 6, 6, 5, 5, 4, 4,
      3, 3, 3, 2, 2, 2, 2, 2, 2, 1,
      1, 1, 1, 1, 1, 1, 1, 1, 1, 1>>

\* one unit of probability is 1 / Scale: Scale stands for 1.0 = e ** 0
Scale == ExpTable[1]

ExpNeg(d10) == IF d10 < Len(ExpTable) THEN ExpTable[d10 + 1] ELSE 0

\* 1 / (1 + math.e ** (-delta)), delta given in tenths
Logistic(d10) == (Scale * Scale) \div (Scale + ExpNeg(d10))

\* the normalized delta taken from skill_1 - skill_2 without abs(): under
\* one half when the boxer at position 0 has the lower skill
normalized_delta_signed(boxer_1, boxer_2) ==
    IF get_fighting_skill(boxer_1) >= get_fighting_skill(boxer_2)
    THEN Logistic(get_fighting_skill(boxer_1) - get_fighting_skill(boxer_2))
    ELSE Scale - Logistic(get_fighting_skill(boxer_2) - get_fighting_skill(boxer_1))

normalized_delta(boxer_1, boxer_2) ==
    Logistic(Abs(get_fighting_skill(boxer_1) - get_fighting_skill(boxer_2)))

UpdateCall(id, res) == <<"update_boxer_stats", id, res>>

RandomCall(r) == <<"get_random", r>>

ClearCall == <<"clear_ring">>

\* clear_ring removing the last occupant only
clear_ring_popping(rg) == IF rg = <<>> THEN rg ELSE SubSeq(rg, 1, Len(rg) - 1)

\* clear_ring leaving the occupants in place
clear_ring_keeping(rg) == rg

clear_ring(rg) == IF rg = <<>> THEN rg ELSE <<>>

\* the comparison of the draw with the normalized delta, not strict
first_wins_not_strict(r, boxer_1, boxer_2) ==
    r <= normalized_delta(boxer_1, boxer_2)

\* random_number < normalized_delta: the boxer at position 0 wins
first_wins(r, boxer_1, boxer_2) == r < normalized_delta(boxer_1, boxer_2)

\* the rest of fight, recording the loss before the win
fight_resolve_loss_first(db, rg, r, errAt) ==
    LET first == first_wins(r, rg[1], rg[2])
        winner == IF first THEN rg[1] ELSE rg[2]
        loser == IF first THEN rg[2] ELSE rg[1]
        u1 == update_boxer_stats(db, loser.id, "loss", errAt = 1)
        u2 == update_boxer_stats(u1.db, winner.id, "win", errAt = 2)
    IN  IF u1.result.kind # "ok" THEN
            [db |-> u1.db, ring |-> rg,
             calls |-> <<RandomCall(r), UpdateCall(loser.id, "loss")>>,
             result |-> u1.result]
        ELSE IF u2.result.kind # "ok" THEN
            [db |-> u2.db, ring |-> rg,
             calls |-> <<RandomCall(r), UpdateCall(loser.id, "loss"),
                         UpdateCall(winner.id, "win")>>,
             result |-> u2.result]
        ELSE
            [db |-> u2.db, ring |-> clear_ring(rg),
             calls |-> <<RandomCall(r), UpdateCall(loser.id, "loss"),
                         UpdateCall(winner.id, "win"), ClearCall>>,
             result |-> Ok(winner.name)]

\* the rest of fight, clearing the ring also when an update raises
fight_resolve_always_clearing(db, rg, r, errAt) ==
    LET first == first_wins(r, rg[1], rg[2])
        winner == IF first THEN rg[1] ELSE rg[2]
        loser == IF first THEN rg[2] ELSE rg[1]
        u1 == update_boxer_stats(db, winner.id, "win", errAt = 1)
        u2 == update_boxer_stats(u1.db, loser.id, "loss", errAt = 2)
    IN  IF u1.result.kind # "ok" THEN
            [db |-> u1.db, ring |-> clear_ring(rg),
             calls |-> <<RandomCall(r), UpdateCall(winner.id, "win"), ClearCall>>,
             result |-> u1.result]
        ELSE IF u2.result.kind # "ok" THEN
            [db |-> u2.db, ring |-> clear_ring(rg),
             calls |-> <<RandomCall(r), UpdateCall(winner.id, "win"),
                         UpdateCall(loser.id, "loss"), ClearCall>>,
             result |-> u2.result]
        ELSE
            [db |-> u2.db, ring |-> clear_ring(rg),
             calls |-> <<RandomCall(r), UpdateCall(winner.id, "win"),
                         UpdateCall(loser.id, "loss"), ClearCall>>,
             result |-> Ok(winner.name)]

\* the rest of fight, going on when an update finds no row
fight_resolve_skipping_missing(db, rg, r, errAt) ==
    LET first == first_wins(r, rg[1], rg[2])
        winner == IF first THEN rg[1] ELSE rg[2]
        loser == IF first THEN rg[2] ELSE rg[1]
        u1 == update_boxer_stats(db, winner.id, "win", errAt = 1)
        u2 == update_boxer_stats(u1.db, loser.id, "loss", errAt = 2)
    IN  IF u1.result = StorageError THEN
            [db |-> u1.db, ring |-> rg,
             calls |-> <<RandomCall(r), UpdateCall(winner.id, "win")>>,
             result |-> u1.result]
        ELSE IF u2.result = StorageError THEN
            [db |-> u2.db, ring |-> rg,
             calls |-> <<RandomCall(r), UpdateCall(winner.id, "win"),
                         UpdateCall(loser.id, "loss")>>,
             result |-> u2.result]
        ELSE
            [db |-> u2.db, ring |-> clear_ring(rg),
             calls |-> <<RandomCall(r), UpdateCall(winner.id, "win"),
                         UpdateCall(loser.id, "loss"), ClearCall>>,
             result |-> Ok(winner.name)]

\* the rest of fight, counting no loss for a boxer who has just won
fight_resolve_once_per_boxer(db, rg, r, errAt) ==
    LET first == first_wins(r, rg[1], rg[2])
        winner == IF first THEN rg[1] ELSE rg[2]
        loser == IF first THEN rg[2] ELSE rg[1]
        u1 == update_boxer_stats(db, winner.id, "win", errAt = 1)
        u2 == IF loser.id = winner.id
              THEN [db |-> u1.db, result |-> Ok(None), calls |-> << >>]
              ELSE update_boxer_stats(u1.db, loser.id, "loss", errAt = 2)
    IN  IF u1.result.kind # "ok" THEN
            [db |-> u1.db, ring |-> rg,
             calls |-> <<RandomCall(r), UpdateCall(winner.id, "win")>>,
             result |-> u1.result]
        ELSE IF u2.result.kind # "ok" THEN
            [db |-> u2.db, ring |-> rg,
             calls |-> <<RandomCall(r), UpdateCall(winner.id, "win"),
                         UpdateCall(loser.id, "loss")>>,
             result |-> u2.result]
        ELSE
            [db |-> u2.db, ring |-> clear_ring(rg),
             calls |-> <<RandomCall(r), UpdateCall(winner.id, "win"),
                         UpdateCall(loser.id, "loss"), ClearCall>>,
             result |-> Ok(winner.name)]

\* the rest of fight, taking the win back when the update of the loser raises
fight_resolve_rolling_back(db, rg, r, errAt) ==
    LET first == first_wins(r, rg[1], rg[2])
        winner == IF first THEN rg[1] ELSE rg[2]
        loser == IF first THEN rg[2] ELSE rg[1]
        u1 == update_boxer_stats(db, winner.id, "win", errAt = 1)
        u2 == update_boxer_stats(u1.db, loser.id, "loss", errAt = 2)
    IN  IF u1.result.kind # "ok" THEN
            [db |-> u1.db, ring |-> rg,
             calls |-> <<RandomCall(r), UpdateCall(winner.id, "win")>>,
             result |-> u1.result]
        ELSE IF u2.result.kind # "ok" THEN
            [db |-> db, ring |-> rg,
             calls |-> <<RandomCall(r), UpdateCall(winner.id, "win"),
                         UpdateCall(loser.id, "loss")>>,
             result |-> u2.result]
        ELSE
            [db |-> u2.db, ring |-> clear_ring(rg),
             calls |-> <<RandomCall(r), UpdateCall(winner.id, "win"),
                         UpdateCall(loser.id, "loss"), ClearCall>>,
             result |-> Ok(winner.name)]

(* fight past its occupancy check. r is the value get_random returns;  *)
(* errAt says in which of the two update calls the store raises        *)
(* sqlite3.Error (0: in neither).                                       *)
fight_resolve(db, rg, r, errAt) ==
    LET boxer_1 == rg[1]
        boxer_2 == rg[2]
        first == first_wins(r, boxer_1, boxer_2)
        winner == IF first THEN boxer_1 ELSE boxer_2
        loser == IF first THEN boxer_2 ELSE boxer_1
        u1 == update_boxer_stats(db, winner.id, "win", errAt = 1)
        u2 == update_boxer_stats(u1.db, loser.id, "loss", errAt = 2)
    IN  IF u1.result.kind # "ok" THEN
            [db |-> u1.db, ring |-> rg,
             calls |-> <<RandomCall(r), UpdateCall(winner.id, "win")>>,
             result |-> u1.result]
        ELSE IF u2.result.kind # "ok" THEN
            [db |-> u2.db, ring |-> rg,
             calls |-> <<RandomCall(r), UpdateCall(winner.id, "win"),
                         UpdateCall(loser.id, "loss")>>,
             result |-> u2.result]
        ELSE
            [db |-> u2.db, ring |-> clear_ring(rg),
             calls |-> <<RandomCall(r), UpdateCall(winner.id, "win"),
                         UpdateCall(loser.id, "loss"), ClearCall>>,
             result |-> Ok(winner.name)]

\* fight refusing only the empty ring: with one occupant the unpacking of
\* get_boxers() raises
fight_checking_empty(db, rg, r, errAt) ==
    IF Len(rg) = 0 THEN
        [db |-> db, ring |-> rg, calls |-> <<>>,
         result |-> ValueError(NotFullMsg)]
    ELSE IF Len(rg) = 1 THEN
        [db |-> db, ring |-> rg, calls |-> <<>>,
         result |-> ValueError("not enough values to unpack (expected 2, got 1)")]
    ELSE fight_resolve(db, rg, r, errAt)

fight(db, rg, r, errAt) ==
    IF Len(rg) < RingCapacity THEN
        [db |-> db, ring |-> rg, calls |-> <<>>,
         result |-> ValueError(NotFullMsg)]
    ELSE fight_resolve(db, rg, r, errAt)

IsBoxer(x) == x.type = "Boxer"

\* enter_ring without the capacity check
enter_ring_unchecked(rg, boxer) ==
    IF ~IsBoxer(boxer) THEN
        [ring |-> rg,
         result |-> TypeError(NotBoxerMsg)]
    ELSE
        [ring |-> Append(rg, boxer), result |-> Ok(None)]

\* enter_ring putting the newcomer in front of the occupant
enter_ring_in_front(rg, boxer) ==
    IF ~IsBoxer(boxer) THEN
        [ring |-> rg,
         result |-> TypeError(NotBoxerMsg)]
    ELSE IF Len(rg) >= RingCapacity THEN
        [ring |-> rg, result |-> ValueError(RingFullMsg)]
    ELSE
        [ring |-> <<boxer>> \o rg, result |-> Ok(None)]

\* enter_ring on a full ring pushing the second occupant out
enter_ring_replacing(rg, boxer) ==
    IF ~IsBoxer(boxer) THEN
        [ring |-> rg,
         result |-> TypeError(NotBoxerMsg)]
    ELSE IF Len(rg) >= RingCapacity THEN
        [ring |-> <<rg[1], boxer>>,
         result |-> ValueError(RingFullMsg)]
    ELSE
        [ring |-> Append(rg, boxer), result |-> Ok(None)]

\* enter_ring checking the capacity before the type
enter_ring_capacity_first(rg, boxer) ==
    IF Len(rg) >= RingCapacity THEN
        [ring |-> rg, result |-> ValueError(RingFullMsg)]
    ELSE IF ~IsBoxer(boxer) THEN
        [ring |-> rg,
         result |-> TypeError(NotBoxerMsg)]
    ELSE
        [ring |-> Append(rg, boxer), result |-> Ok(None)]

enter_ring(rg, boxer) ==
    IF ~IsBoxer(boxer) THEN
        [ring |-> rg,
         result |-> TypeError(NotBoxerMsg)]
    ELSE IF Len(rg) >= RingCapacity THEN
        [ring |-> rg, result |-> ValueError(RingFullMsg)]
    ELSE
        [ring |-> Append(rg, boxer), result |-> Ok(None)]

----------------------------------------------------------------------------
(* Inputs *)

\* create_boxer arguments: <<name, weight, height, reach, age>>
ValidInputs ==
    { <<"Ali", 150, 170, 10, 24>>,
      <<"Bob", 150, 170, 11, 30>>,
      <<"Bob", 203, 180, 10, 36>> }

InvalidInputs ==
    { <<"Ali", 124, 170, 10, 24>>,
      <<"Bob", 150, 0, 11, 30>>,
      <<"Bob", 150, 170, 0, 30>>,
      <<"Ali", 150, 170, 10, 17>>,
      <<"Ali", 150, 170, 10, 41>> }

CreateInputs == ValidInputs \cup InvalidInputs

\* identifiers a caller passes: an identifier that was never given, or whose
\* row was deleted, matches no row
CallerIds == Ids

ResultTokens == {"win", "loss", "draw"}

\* values get_random may return, in units of 1 / Scale
RandomDraws == {0, 4999, 5000, 7501, 7502, 9999}

\* values passed to enter_ring that are not Boxer instances
NonBoxers == { [type |-> "str", value |-> "some_string"],
               [type |-> "NoneType", value |-> "None"] }

\* the Boxer values a caller obtains from the repository
StoredBoxers == { BoxerOfRow(i, boxers[i]) : i \in DOMAIN boxers }

\* names and sort keys a caller passes
CallerNames == { in[1] : in \in CreateInputs }

SortKeys == {"wins", "win_pct", "losses"}

\* the store may fail during any call that opens it
CreateFaults(in) == BOOLEAN

UpdateFaults(res) == IF res \in {"win", "loss"} THEN BOOLEAN ELSE {FALSE}

\* get_random and the store are reached only from a full ring
FightDraws == IF Len(ring) < RingCapacity THEN {0} ELSE RandomDraws

FightFaults == IF Len(ring) < RingCapacity THEN {0} ELSE 0..2

\* the model explores fight counts up to MaxFights
WithinBounds(db) == \A i \in DOMAIN db : db[i].fights <= MaxFights

----------------------------------------------------------------------------
(* The state machine *)

(* op, args, result, calls and prev observe one call: they are set by   *)
(* the step that runs an operation and dropped by Return before the     *)
(* caller makes its next call; no operation reads them. prev holds the  *)
(* table, the ring and hist as they were when the call was made.        *)
Snapshot == [boxers |-> boxers, ring |-> ring, hist |-> hist]

(* hist records, for the properties, the arguments of the create_boxer    *)
(* call that stored each row still in the table, and the ids whose row a  *)
(* delete_boxer call removed; no operation reads it.                      *)
NoHistory == [created |-> << >>, deleted |-> {}]

Created(h, id, in) ==
    [created |-> [i \in DOMAIN h.created \cup {id} |->
                     IF i = id THEN in ELSE h.created[i]],
     deleted |-> h.deleted \ {id}]

Deleted(h, id) ==
    [created |-> [i \in DOMAIN h.created \ {id} |-> h.created[i]],
     deleted |-> h.deleted \cup {id}]

\* the connections that may run create_boxer at the same time
Procs == {1, 2}

\* passed: the call found no row of its name and went on to its INSERT
Idle == [pc |-> "idle", in |-> << >>, result |-> Ok(None), passed |-> FALSE]

Done(pr, res) == [pr EXCEPT !.pc = "done", !.result = res]

Ready == op = "none"

Init ==
    /\ boxers = << >>
    /\ nextId = 1
    /\ ring = << >>
    /\ hist = NoHistory
    /\ op = "none"
    /\ args = << >>
    /\ result = Ok(None)
    /\ calls = << >>
    /\ prev = Snapshot
    /\ procs = [p \in Procs |-> Idle]

CreateBoxer(in, dbErr) ==
    LET c == create_boxer(boxers, nextId, in[1], in[2], in[3], in[4], in[5], dbErr)
    IN  /\ Ready
        /\ c.nid <= MaxId + 1
        /\ boxers' = c.db
        /\ nextId' = c.nid
        /\ op' = "create_boxer"
        /\ args' = in
        /\ result' = c.result
        /\ calls' = c.calls
        /\ prev' = Snapshot
        /\ hist' = IF c.result = Ok(None) THEN Created(hist, nextId, in) ELSE hist
        /\ UNCHANGED <<ring, procs>>

DeleteBoxer(id, dbErr) ==
    LET d == delete_boxer(boxers, id, dbErr)
    IN  /\ Ready
        /\ boxers' = d.db
        /\ op' = "delete_boxer"
        /\ args' = <<id>>
        /\ result' = d.result
        /\ calls' = << >>
        /\ prev' = Snapshot
        /\ hist' = IF d.result = Ok(None) THEN Deleted(hist, id) ELSE hist
        /\ UNCHANGED <<nextId, ring, procs>>

UpdateBoxerStats(id, res, dbErr) ==
    LET u == update_boxer_stats(boxers, id, res, dbErr)
    IN  /\ Ready
        /\ WithinBounds(u.db)
        /\ boxers' = u.db
        /\ op' = "update_boxer_stats"
        /\ args' = <<id, res>>
        /\ result' = u.result
        /\ calls' = u.calls
        /\ prev' = Snapshot
        /\ UNCHANGED <<nextId, ring, hist, procs>>

GetBoxerById(id, dbErr) ==
    /\ Ready
    /\ op' = "get_boxer_by_id"
    /\ args' = <<id>>
    /\ result' = get_boxer_by_id(boxers, id, dbErr)
    /\ calls' = << >>
    /\ prev' = Snapshot
    /\ UNCHANGED <<boxers, nextId, ring, hist, procs>>

GetBoxerByName(name, dbErr) ==
    /\ Ready
    /\ op' = "get_boxer_by_name"
    /\ args' = <<name>>
    /\ result' = get_boxer_by_name(boxers, name, dbErr)
    /\ calls' = << >>
    /\ prev' = Snapshot
    /\ UNCHANGED <<boxers, nextId, ring, hist, procs>>

GetLeaderboard(sort_by, dbErr) ==
    /\ Ready
    /\ op' = "get_leaderboard"
    /\ args' = <<sort_by>>
    /\ result' \in get_leaderboard(boxers, sort_by, dbErr)
    /\ calls' = << >>
    /\ prev' = Snapshot
    /\ UNCHANGED <<boxers, nextId, ring, hist, procs>>

EnterRing(boxer) ==
    LET e == enter_ring(ring, boxer)
    IN  /\ Ready
        /\ ring' = e.ring
        /\ op' = "enter_ring"
        /\ args' = <<boxer>>
        /\ result' = e.result
        /\ calls' = << >>
        /\ prev' = Snapshot
        /\ UNCHANGED <<boxers, nextId, hist, procs>>

ClearRing ==
    /\ Ready
    /\ ring' = clear_ring(ring)
    /\ op' = "clear_ring"
    /\ args' = << >>
    /\ result' = Ok(None)
    /\ calls' = << >>
    /\ prev' = Snapshot
    /\ UNCHANGED <<boxers, nextId, hist, procs>>

Fight(r, errAt) ==
    LET f == fight(boxers, ring, r, errAt)
    IN  /\ Ready
        /\ WithinBounds(f.db)
        /\ boxers' = f.db
        /\ ring' = f.ring
        /\ op' = "fight"
        /\ args' = << >>
        /\ result' = f.result
        /\ calls' = f.calls
        /\ prev' = Snapshot
        /\ UNCHANGED <<nextId, hist, procs>>

\* the call has returned or raised; the caller goes on to its next call
Return ==
    /\ ~Ready
    /\ op' = "none"
    /\ args' = << >>
    /\ result' = Ok(None)
    /\ calls' = << >>
    /\ prev' = Snapshot
    /\ UNCHANGED <<boxers, nextId, ring, hist, procs>>

Next ==
    \/ \E in \in CreateInputs : \E dbErr \in CreateFaults(in) : CreateBoxer(in, dbErr)
    \/ \E id \in CallerIds, dbErr \in BOOLEAN : DeleteBoxer(id, dbErr)
    \/ \E id \in CallerIds, res \in ResultTokens :
          \E dbErr \in UpdateFaults(res) : UpdateBoxerStats(id, res, dbErr)
    \/ \E id \in CallerIds, dbErr \in BOOLEAN : GetBoxerById(id, dbErr)
    \/ \E name \in CallerNames, dbErr \in BOOLEAN : GetBoxerByName(name, dbErr)
    \/ \E sort_by \in SortKeys, dbErr \in BOOLEAN : GetLeaderboard(sort_by, dbErr)
    \/ \E boxer \in StoredBoxers \cup NonBoxers : EnterRing(boxer)
    \/ ClearRing
    \/ \E r \in FightDraws, errAt \in FightFaults : Fight(r, errAt)
    \/ Return

Spec == Init /\ [][Next]_vars

----------------------------------------------------------------------------
(* create_boxer called on two connections at once. Each call goes through *)
(* its argument checks, its SELECT on the name and its INSERT with the    *)
(* commit; the store runs one statement at a time, and the steps of the   *)
(* two calls interleave in any order.                                     *)

\* lines 73-84: the argument checks
CreateBegin(p, in) ==
    /\ procs[p].pc = "idle"
    /\ procs' = [procs EXCEPT ![p] =
            IF validate_boxer(in[2], in[3], in[4], in[5]) # Ok(None)
            THEN Done([Idle EXCEPT !.in = in],
                      validate_boxer(in[2], in[3], in[4], in[5]))
            ELSE [Idle EXCEPT !.pc = "select", !.in = in]]
    /\ UNCHANGED <<boxers, nextId, ring, op, args, result, calls, prev, hist>>

\* lines 91-94: the SELECT on the name
CreateSelect(p) ==
    /\ procs[p].pc = "select"
    /\ procs' = [procs EXCEPT ![p] =
            IF HasName(boxers, procs[p].in[1])
            THEN Done(procs[p], ValueError(ExistsMsg))
            ELSE [procs[p] EXCEPT !.pc = "insert", !.passed = TRUE]]
    /\ UNCHANGED <<boxers, nextId, ring, op, args, result, calls, prev, hist>>

\* lines 97-105: the INSERT and the commit
CreateInsert(p) ==
    LET in == procs[p].in
        ins == insert_boxer(boxers, nextId, in[1], in[2], in[3], in[4], in[5])
    IN  /\ procs[p].pc = "insert"
        /\ ins.nid <= MaxId + 1
        /\ boxers' = ins.db
        /\ nextId' = ins.nid
        /\ procs' = [procs EXCEPT ![p] = Done(procs[p], ins.result)]
        /\ UNCHANGED <<ring, op, args, result, calls, prev, hist>>

\* the call has returned or raised; the connection may make its next call
CreateReturn(p) ==
    /\ procs[p].pc = "done"
    /\ procs' = [procs EXCEPT ![p] = Idle]
    /\ UNCHANGED <<boxers, nextId, ring, op, args, result, calls, prev, hist>>

NextConcurrent ==
    \/ \E p \in Procs, in \in CreateInputs : CreateBegin(p, in)
    \/ \E p \in Procs : CreateSelect(p)
    \/ \E p \in Procs : CreateInsert(p)
    \/ \E p \in Procs : CreateReturn(p)

SpecConcurrent == Init /\ [][NextConcurrent]_vars

----------------------------------------------------------------------------
(* The repository called on its own, with an empty string among the names *)
(* a caller passes; the ring is not used.                                  *)

EmptyNameInputs == { <<"", 150, 170, 10, 24>> }

RepositoryInputs == CreateInputs \cup EmptyNameInputs

RepositoryNames == { in[1] : in \in RepositoryInputs }

NextRepository ==
    \/ \E in \in RepositoryInputs, dbErr \in BOOLEAN : CreateBoxer(in, dbErr)
    \/ \E id \in CallerIds, dbErr \in BOOLEAN : DeleteBoxer(id, dbErr)
    \/ \E name \in RepositoryNames, dbErr \in BOOLEAN : GetBoxerByName(name, dbErr)
    \/ Return

SpecRepository == Init /\ [][NextRepository]_vars

----------------------------------------------------------------------------
(* get_weight_class applied to one weight *)

Weights == (-MaxWeight)..MaxWeight

InvalidWeightMsg == "Invalid weight: {weight}. Weight must be at least 125."

InitWeightClass ==
    /\ boxers = << >>
    /\ nextId = 1
    /\ ring = << >>
    /\ hist = NoHistory
    /\ op = "none"
    /\ args \in { <<weight>> : weight \in Weights }
    /\ result = Ok(None)
    /\ calls = << >>
    /\ prev = Snapshot
    /\ procs = [p \in Procs |-> Idle]

GetWeightClass ==
    /\ Ready
    /\ op' = "get_weight_class"
    /\ result' = IF get_weight_class(args[1]) = InvalidWeightClass
                 THEN ValueError(InvalidWeightMsg)
                 ELSE Ok(get_weight_class(args[1]))
    /\ UNCHANGED <<boxers, nextId, ring, args, calls, prev, hist, procs>>

SpecWeightClass == InitWeightClass /\ [][GetWeightClass]_vars

----------------------------------------------------------------------------
(* get_fighting_skill applied to one boxer *)

SkillBoxers ==
    { Boxer(1, name, weight, 170, reach, age) :
        name \in {"", "Ali", "Dmitri"}, weight \in {MinWeight, HeavyMin},
        reach \in {1, 10, 75}, age \in 1..MaxSkillAge }

InitFightingSkill ==
    /\ boxers = << >>
    /\ nextId = 1
    /\ ring = << >>
    /\ hist = NoHistory
    /\ op = "none"
    /\ args \in { <<boxer>> : boxer \in SkillBoxers }
    /\ result = Ok(None)
    /\ calls = << >>
    /\ prev = Snapshot
    /\ procs = [p \in Procs |-> Idle]

GetFightingSkill ==
    /\ Ready
    /\ op' = "get_fighting_skill"
    /\ result' = Ok(get_fighting_skill(args[1]))
    /\ UNCHANGED <<boxers, nextId, ring, args, calls, prev, hist, procs>>

SpecFightingSkill == InitFightingSkill /\ [][GetFightingSkill]_vars

----------------------------------------------------------------------------
(* Properties *)

\* the last call was fight and it went past its occupancy check
FightProceeded == op = "fight" /\ result # ValueError(NotFullMsg)

(* C1: the ring always holds 0, 1 or 2 boxers, and a fight that goes past *)
(* its occupancy check was called on a ring holding exactly 2.            *)
C1_RingSize ==
    /\ Len(ring) \in {0, 1, 2}
    /\ FightProceeded => Len(prev.ring) = 2

\* a fight went past the check and drew its random value
C1_Witness == FightProceeded /\ Len(prev.ring) = 2 /\ calls # << >>

(* C2: fight on a ring holding 0 or 1 boxers fails with the ValueError    *)
(* 'There must be two boxers to start a fight.', and leaves the ring and  *)
(* every row of the table (so every fight and win count) as they were.    *)
C2_FightNotFull ==
    (op = "fight" /\ Len(prev.ring) < 2) =>
        /\ result = ValueError(NotFullMsg)
        /\ calls = << >>
        /\ ring = prev.ring
        /\ boxers = prev.boxers

\* fight was called on one occupant whose row has counted a fight
C2_Witness ==
    /\ op = "fight"
    /\ Len(prev.ring) = 1
    /\ \E i \in DOMAIN boxers : boxers[i].fights > 0

(* C3: enter_ring with a Boxer on a ring holding fewer than two boxers    *)
(* succeeds and appends the boxer after any occupant: the size grows by   *)
(* one and an earlier occupant keeps position 0.                          *)
C3_EnterAppends ==
    (op = "enter_ring" /\ IsBoxer(args[1]) /\ Len(prev.ring) < 2) =>
        /\ result = Ok(None)
        /\ Len(ring) = Len(prev.ring) + 1
        /\ ring[Len(ring)] = args[1]
        /\ \A k \in 1..Len(prev.ring) : ring[k] = prev.ring[k]

\* a second, different boxer entered behind the first
C3_Witness ==
    /\ op = "enter_ring"
    /\ result = Ok(None)
    /\ Len(prev.ring) = 1
    /\ Len(ring) = 2
    /\ ring[1] # ring[2]

(* C4: enter_ring with a Boxer on a ring holding two boxers fails with    *)
(* the ValueError 'Ring is full, cannot add more boxers.', whichever      *)
(* boxer is offered, and leaves the two occupants and their order.        *)
C4_EnterFull ==
    (op = "enter_ring" /\ IsBoxer(args[1]) /\ Len(prev.ring) = 2) =>
        /\ result = ValueError(RingFullMsg)
        /\ ring = prev.ring

\* a boxer already in the full ring was offered and refused
C4_Witness ==
    /\ op = "enter_ring"
    /\ Len(prev.ring) = 2
    /\ IsBoxer(args[1])
    /\ args[1] = prev.ring[1]
    /\ prev.ring[1] # prev.ring[2]
    /\ result.kind = "ValueError"

(* C5: enter_ring with a value that is not a Boxer fails with a TypeError *)
(* whether the ring is empty, holds one boxer or is full, and leaves the  *)
(* ring unchanged.                                                        *)
C5_EnterNonBoxer ==
    (op = "enter_ring" /\ ~IsBoxer(args[1])) =>
        /\ result = TypeError(NotBoxerMsg)
        /\ ring = prev.ring

\* a value that is not a Boxer was offered to a full ring
C5_Witness ==
    /\ op = "enter_ring"
    /\ ~IsBoxer(args[1])
    /\ Len(prev.ring) = 2
    /\ result.kind = "TypeError"

\* the last call was fight and it returned a winner's name
FightReturned == op = "fight" /\ result.kind = "ok"

(* C6: whenever fight returns a winner, the ring is empty right after,    *)
(* whichever of the two occupants won.                                    *)
C6_FightEmptiesRing ==
    FightReturned => (Len(prev.ring) = 2 /\ ring = << >>)

\* a fight between two different boxers returned the second occupant
C6_Witness ==
    /\ FightReturned
    /\ prev.ring[1].name # prev.ring[2].name
    /\ result.value = prev.ring[2].name
    /\ ring = << >>

(* C7: in a fight on a full ring, with r the value drawn, the boxer at    *)
(* position 0 is the winner iff r < normalized delta of the two           *)
(* occupants' skills; otherwise the boxer at position 1 is the winner;    *)
(* the other occupant is the loser.                                       *)
C7_WinnerRule ==
    (FightProceeded /\ Len(prev.ring) = 2) =>
        LET boxer_1 == prev.ring[1]
            boxer_2 == prev.ring[2]
            r == calls[1][2]
            nd == Logistic(Abs(get_fighting_skill(boxer_1)
                               - get_fighting_skill(boxer_2)))
            winner == IF r < nd THEN boxer_1 ELSE boxer_2
            loser == IF r < nd THEN boxer_2 ELSE boxer_1
        IN  /\ calls[1] = RandomCall(r)
            /\ calls[2] = UpdateCall(winner.id, "win")
            /\ Len(calls) >= 3 => calls[3] = UpdateCall(loser.id, "loss")
            /\ result.kind = "ok" => result.value = winner.name

\* the draw equalled the normalized delta of two different boxers, and the
\* boxer at position 1 won
C7_Witness ==
    /\ FightReturned
    /\ prev.ring[1].id # prev.ring[2].id
    /\ calls[1][2] = normalized_delta(prev.ring[1], prev.ring[2])
    /\ calls[2] = UpdateCall(prev.ring[2].id, "win")
    /\ calls[3] = UpdateCall(prev.ring[1].id, "loss")
    /\ result.value = prev.ring[2].name

(* C8: a fight that returns issues, in this order, the update of the      *)
(* winner with 'win', the update of the loser with 'loss', then the       *)
(* clearing of the ring, and returns the winner's name; it issues no      *)
(* other update.                                                          *)
C8_FightOrder ==
    FightReturned =>
        \E w \in {1, 2} :
            LET l == 3 - w
            IN  /\ Len(calls) = 4
                /\ calls[1][1] = "get_random"
                /\ calls[2] = UpdateCall(prev.ring[w].id, "win")
                /\ calls[3] = UpdateCall(prev.ring[l].id, "loss")
                /\ calls[4] = ClearCall
                /\ result.value = prev.ring[w].name
                /\ ring = << >>

\* a fight between two different boxers returned
C8_Witness ==
    /\ FightReturned
    /\ prev.ring[1].id # prev.ring[2].id
    /\ Len(calls) = 4
    /\ calls[2][3] = "win"
    /\ calls[3][3] = "loss"

\* the last call was fight and one of its two updates raised
FightUpdateFailed == op = "fight" /\ calls # << >> /\ result.kind # "ok"

(* C9: if either update made by fight fails, fight ends with that error   *)
(* and the ring still holds the same two boxers in the same order: the    *)
(* ring is not cleared.                                                   *)
C9_FailedFightKeepsRing ==
    FightUpdateFailed =>
        LET failed == calls[Len(calls)]
        IN  /\ Len(prev.ring) = 2
            /\ ring = prev.ring
            /\ failed[1] = "update_boxer_stats"
            /\ \A k \in 1..Len(calls) : calls[k] # ClearCall
            /\ result \in {StorageError, ValueError(NotFoundMsg)}
            /\ result = ValueError(NotFoundMsg) => failed[2] \notin DOMAIN prev.boxers

\* the update of the loser found no row, after the winner's update was made
C9_Witness ==
    /\ FightUpdateFailed
    /\ Len(calls) = 3
    /\ result = ValueError(NotFoundMsg)
    /\ Len(ring) = 2
    /\ boxers # prev.boxers

(* C10: update_boxer_stats on an existing boxer raises the fight count    *)
(* and the win count by 1 each for 'win', and only the fight count by 1   *)
(* for 'loss'; every other row, and the row's name, weight, height, reach *)
(* and age, stay as they were. (The call ends otherwise only when the     *)
(* store raises, and then changes nothing.)                               *)
C10_UpdateStats ==
    (/\ op = "update_boxer_stats"
     /\ args[2] \in {"win", "loss"}
     /\ args[1] \in DOMAIN prev.boxers) =>
        LET id == args[1]
            old == prev.boxers[id]
            won == IF args[2] = "win" THEN 1 ELSE 0
        IN  IF result = StorageError THEN boxers = prev.boxers
            ELSE /\ result = Ok(None)
                 /\ DOMAIN boxers = DOMAIN prev.boxers
                 /\ boxers[id] = [old EXCEPT !.fights = old.fights + 1,
                                             !.wins = old.wins + won]
                 /\ \A j \in DOMAIN boxers \ {id} : boxers[j] = prev.boxers[j]

\* a loss was recorded for one of two boxers, who had a win already
C10_Witness ==
    /\ op = "update_boxer_stats"
    /\ args[2] = "loss"
    /\ result = Ok(None)
    /\ Cardinality(DOMAIN boxers) = 2
    /\ boxers[args[1]].wins = 1
    /\ boxers[args[1]].fights = 2

\* create_boxer has just stored a row
Inserted == op = "create_boxer" /\ result = Ok(None)

(* C11: after any sequence of create_boxer, delete_boxer,                 *)
(* update_boxer_stats and fight, every row has a fight count and a win    *)
(* count that are not negative, with wins <= fights; and the row that     *)
(* create_boxer has just stored has both counts at 0.                     *)
C11_Counters ==
    /\ \A i \in DOMAIN boxers :
          /\ boxers[i].fights >= 0
          /\ boxers[i].wins >= 0
          /\ boxers[i].wins <= boxers[i].fights
    /\ Inserted =>
          \A i \in DOMAIN boxers \ DOMAIN prev.boxers :
              boxers[i].fights = 0 /\ boxers[i].wins = 0

\* a row was created with both counts at 0 next to a row that has won all
\* of its fights
C11_Witness ==
    /\ Inserted
    /\ \E i \in DOMAIN boxers \ DOMAIN prev.boxers : boxers[i].fights = 0
    /\ \E j \in DOMAIN prev.boxers :
          boxers[j].wins = boxers[j].fights /\ boxers[j].fights = MaxFights

(* C12: update_boxer_stats with 'win' or 'loss' and an id that matches no *)
(* row fails with the ValueError 'Boxer with ID ... not found.' once it   *)
(* has looked for the row: it sends no UPDATE and no commit, and every    *)
(* row keeps its counts. (The call ends otherwise only when the store     *)
(* raises as it is opened, and then nothing is sent to it.)               *)
C12_UpdateNotFound ==
    (/\ op = "update_boxer_stats"
     /\ args[2] \in {"win", "loss"}
     /\ args[1] \notin DOMAIN prev.boxers) =>
        /\ boxers = prev.boxers
        /\ IF result = StorageError THEN calls = << >>
           ELSE result = ValueError(NotFoundMsg) /\ calls = <<SelectId>>

\* a win was reported for an id whose row is gone, while another row has
\* counted a fight
C12_Witness ==
    /\ op = "update_boxer_stats"
    /\ args[2] = "win"
    /\ args[1] \notin DOMAIN prev.boxers
    /\ args[1] \in hist.deleted
    /\ result = ValueError(NotFoundMsg)
    /\ \E i \in DOMAIN boxers : boxers[i].fights > 0

\* create_boxer ended with one of its four validation errors
ValidationFailed ==
    /\ result.kind = "ValueError"
    /\ result.msg \in { "Invalid weight: {weight}. Must be at least 125.",
                         "Invalid height: {height}. Must be greater than 0.",
                         "Invalid reach: {reach}. Must be greater than 0.",
                         "Invalid age: {age}. Must be between 18 and 40." }

\* the weight, height, reach and age passed to create_boxer are in range
ArgsInRange ==
    /\ args[2] >= 125
    /\ args[3] > 0
    /\ args[4] > 0
    /\ args[5] >= 18
    /\ args[5] <= 40

(* C13: create_boxer with weight < 125, height <= 0, reach <= 0 or an age *)
(* outside 18..40 fails with a validation error, sends nothing to the     *)
(* store and leaves the table as it was; with the four in range and a     *)
(* name no row has, it inserts exactly one row, which holds the           *)
(* arguments. (In the second case the call ends otherwise only when the   *)
(* store raises, and then writes nothing.)                                *)
C13_CreateValidation ==
    op = "create_boxer" =>
        IF ~ArgsInRange THEN
            /\ ValidationFailed
            /\ calls = << >>
            /\ boxers = prev.boxers
        ELSE IF HasName(prev.boxers, args[1]) THEN TRUE
        ELSE IF result = StorageError THEN boxers = prev.boxers
        ELSE
            /\ result = Ok(None)
            /\ Cardinality(DOMAIN boxers \ DOMAIN prev.boxers) = 1
            /\ \A i \in DOMAIN prev.boxers :
                  i \in DOMAIN boxers /\ boxers[i] = prev.boxers[i]
            /\ \A i \in DOMAIN boxers \ DOMAIN prev.boxers :
                  /\ boxers[i].name = args[1]
                  /\ boxers[i].weight = args[2]
                  /\ boxers[i].height = args[3]
                  /\ boxers[i].reach = args[4]
                  /\ boxers[i].age = args[5]
            /\ calls = <<SelectName, InsertBoxer, Commit>>

\* an age of 41 was refused with one row in the table already
C13_Witness ==
    /\ op = "create_boxer"
    /\ args[5] = 41
    /\ ValidationFailed
    /\ calls = << >>
    /\ Cardinality(DOMAIN boxers) = 1

\* the claim as it was made: a name that has a row always gives the
\* 'already exists' error, whatever the other arguments are
C14_AsClaimed ==
    (/\ op = "create_boxer"
     /\ HasName(prev.boxers, args[1])
     /\ result # StorageError) =>
        /\ result = ValueError(ExistsMsg)
        /\ boxers = prev.boxers

(* C14: create_boxer with a name that has a row inserts no row and fails: *)
(* with the 'already exists' ValueError when weight, height, reach and    *)
(* age are in range, and with the validation error when one of them is    *)
(* not, since the arguments are checked before the name is looked up.     *)
(* (With the four in range the call ends otherwise only when the store    *)
(* raises.)                                                               *)
C14_DuplicateName ==
    (op = "create_boxer" /\ HasName(prev.boxers, args[1])) =>
        /\ boxers = prev.boxers
        /\ IF ~ArgsInRange THEN ValidationFailed
           ELSE result \in {ValueError(ExistsMsg), StorageError}

\* a name that has a row was offered again with another weight and age,
\* all in range, and refused as existing
C14_Witness ==
    /\ op = "create_boxer"
    /\ ArgsInRange
    /\ result = ValueError(ExistsMsg)
    /\ calls = <<SelectName>>
    /\ \E i \in DOMAIN boxers :
          boxers[i].name = args[1] /\ boxers[i].weight # args[2]

\* two create_boxer calls for one name both found no row of that name and
\* have both ended
BothPassed(p, q) ==
    /\ p # q
    /\ procs[p].pc = "done" /\ procs[q].pc = "done"
    /\ procs[p].passed /\ procs[q].passed
    /\ procs[p].in[1] = procs[q].in[1]

(* C15: when two create_boxer calls for one name both pass the check for  *)
(* an existing row before either inserts, one of them inserts its row and *)
(* the other fails with the same 'already exists' ValueError that the     *)
(* check raises; and in every reachable state no two rows have the same   *)
(* name.                                                                  *)
C15_ConcurrentCreate ==
    /\ \A i, j \in DOMAIN boxers : i # j => boxers[i].name # boxers[j].name
    /\ \A p, q \in Procs :
          BothPassed(p, q) =>
              \/ procs[p].result = Ok(None)
                    /\ procs[q].result = ValueError(ExistsMsg)
              \/ procs[q].result = Ok(None)
                    /\ procs[p].result = ValueError(ExistsMsg)

\* both calls passed the check with different weights for one name; the
\* second to insert was refused and the table has the row of the first
C15_Witness ==
    /\ BothPassed(1, 2)
    /\ procs[1].in # procs[2].in
    /\ procs[1].result = ValueError(ExistsMsg)
    /\ procs[2].result = Ok(None)
    /\ \E i \in DOMAIN boxers :
          /\ boxers[i].name = procs[2].in[1]
          /\ boxers[i].weight = procs[2].in[2]
    /\ Cardinality(DOMAIN boxers) = 1

\* the Boxer that the getters are to return for the row with identifier id,
\* from the arguments create_boxer was given for it
BoxerAsCreated(id) ==
    LET in == hist.created[id]
    IN  [type |-> "Boxer", id |-> id, name |-> in[1], weight |-> in[2],
         height |-> in[3], reach |-> in[4], age |-> in[5],
         weight_class |-> get_weight_class(in[2])]

(* C16: from a successful create_boxer until the boxer is deleted,        *)
(* get_boxer_by_id with the id the row was given and get_boxer_by_name    *)
(* with its name return a Boxer whose name, weight, height, reach and age *)
(* are the arguments create_boxer was given, and whose weight_class is    *)
(* get_weight_class(weight). (A getter ends otherwise only when the store *)
(* raises.)                                                               *)
C16_GetAfterCreate ==
    /\ (/\ op = "get_boxer_by_id"
        /\ args[1] \in DOMAIN hist.created
        /\ result # StorageError) =>
            result = Ok(BoxerAsCreated(args[1]))
    /\ (/\ op = "get_boxer_by_name"
        /\ result # StorageError) =>
            \A i \in DOMAIN hist.created :
                hist.created[i][1] = args[1] => result = Ok(BoxerAsCreated(i))

\* a heavyweight was fetched by name after its row counted a fight and after
\* an earlier row was deleted
C16_Witness ==
    /\ op = "get_boxer_by_name"
    /\ result.kind = "ok"
    /\ result.value.weight_class = "HEAVYWEIGHT"
    /\ result.value.name = args[1]
    /\ boxers[result.value.id].fights > 0
    /\ hist.deleted # {}

(* C17: a successful delete_boxer(id) removes the row of id and no other  *)
(* row; after it, get_boxer_by_id(id) and another delete_boxer(id) fail   *)
(* with 'Boxer with ID ... not found.'; delete_boxer with an id that      *)
(* matches no row fails in the same way and removes nothing. (A call ends *)
(* otherwise only when the store raises, and then removes nothing.)       *)
C17_Delete ==
    /\ (op = "delete_boxer" /\ result = Ok(None)) =>
          /\ args[1] \in DOMAIN prev.boxers
          /\ DOMAIN boxers = DOMAIN prev.boxers \ {args[1]}
          /\ \A j \in DOMAIN boxers : boxers[j] = prev.boxers[j]
    /\ (op = "delete_boxer" /\ result # Ok(None)) => boxers = prev.boxers
    /\ (/\ op = "get_boxer_by_id"
        /\ args[1] \in prev.hist.deleted
        /\ result # StorageError) =>
            result = ValueError(NotFoundMsg)
    /\ (/\ op = "delete_boxer"
        /\ args[1] \in prev.hist.deleted \/ args[1] \notin DOMAIN prev.boxers
        /\ result # StorageError) =>
            result = ValueError(NotFoundMsg)

\* a deleted id was deleted again while another boxer has a row
C17_Witness ==
    /\ op = "delete_boxer"
    /\ args[1] \in prev.hist.deleted
    /\ result = ValueError(NotFoundMsg)
    /\ Cardinality(DOMAIN boxers) = 1
    /\ boxers = prev.boxers

\* get_leaderboard was called with one of its two sort keys and the store
\* did not fail
LeaderboardReturned ==
    /\ op = "get_leaderboard"
    /\ args[1] \in {"wins", "win_pct"}
    /\ result # StorageError

(* C18: get_leaderboard with 'wins' or 'win_pct' returns exactly the      *)
(* boxers with fights > 0, each once and with the counts of its row, in   *)
(* an order in which the requested key (wins, or wins / fights) never     *)
(* increases. (The call ends otherwise only when the store raises.)       *)
C18_Leaderboard ==
    LeaderboardReturned =>
        /\ result.kind = "ok"
        /\ LET lb == result.value
               n == Len(lb)
               listed == { i \in DOMAIN boxers : boxers[i].fights > 0 }
           IN  /\ { lb[k].id : k \in 1..n } = listed
               /\ n = Cardinality(listed)
               /\ \A k \in 1..n :
                     /\ lb[k].name = boxers[lb[k].id].name
                     /\ lb[k].fights = boxers[lb[k].id].fights
                     /\ lb[k].wins = boxers[lb[k].id].wins
               /\ \A k \in 1..(n - 1) :
                     IF args[1] = "wins" THEN lb[k].wins >= lb[k + 1].wins
                     ELSE lb[k].wins * lb[k + 1].fights
                              >= lb[k + 1].wins * lb[k].fights

\* by win_pct, the boxer created second, with 1 win in 1 fight, is listed
\* before the boxer created first, with 1 win in 2 fights
C18_Witness ==
    /\ LeaderboardReturned
    /\ args[1] = "win_pct"
    /\ Len(result.value) = 2
    /\ result.value[1].id > result.value[2].id
    /\ result.value[1].wins = 1 /\ result.value[1].fights = 1
    /\ result.value[2].wins = 1 /\ result.value[2].fights = 2

(* C19: for every integer weight w, get_weight_class(w) is HEAVYWEIGHT    *)
(* iff w >= 203, MIDDLEWEIGHT iff 166 <= w < 203, LIGHTWEIGHT iff         *)
(* 133 <= w < 166, FEATHERWEIGHT iff 125 <= w < 133, and it fails with a  *)
(* ValueError iff w < 125.                                                *)
C19_WeightClass ==
    op = "get_weight_class" =>
        LET w == args[1]
        IN  /\ result = Ok("HEAVYWEIGHT") <=> w >= 203
            /\ result = Ok("MIDDLEWEIGHT") <=> (166 <= w /\ w < 203)
            /\ result = Ok("LIGHTWEIGHT") <=> (133 <= w /\ w < 166)
            /\ result = Ok("FEATHERWEIGHT") <=> (125 <= w /\ w < 133)
            /\ result.kind = "ValueError" <=> w < 125

\* the lowest weight of the heaviest class
C19_Witness ==
    /\ op = "get_weight_class"
    /\ args[1] = 203
    /\ result = Ok("HEAVYWEIGHT")

(* C20: get_fighting_skill returns weight * len(name) + reach / 10 + the  *)
(* age modifier, which is -1 for an age under 25, -2 for an age over 35   *)
(* and 0 otherwise, so 0 for the ages 25 and 35. (The value is compared   *)
(* in tenths.)                                                            *)
C20_FightingSkill ==
    op = "get_fighting_skill" =>
        LET boxer == args[1]
            modifier == IF boxer.age < 25 THEN -1
                        ELSE IF boxer.age > 35 THEN -2 ELSE 0
        IN  /\ result = Ok(10 * boxer.weight * NameLen(boxer.name)
                              + boxer.reach + 10 * modifier)
            /\ boxer.age \in {25, 35} =>
                  result.value = 10 * boxer.weight * NameLen(boxer.name)
                                     + boxer.reach

\* a boxer aged 35 with a name of six letters and a reach of 75
C20_Witness ==
    /\ op = "get_fighting_skill"
    /\ args[1].age = 35
    /\ args[1].reach = 75
    /\ NameLen(args[1].name) = 6
    /\ result.value = 10 * (args[1].weight * 6) + 75

(* C21: clear_ring empties the ring from every state (empty, one         *)
(* occupant, full) and raises nothing; called again, on the ring it has  *)
(* emptied, it leaves the ring empty and raises nothing; and it changes  *)
(* no row of the table.                                                  *)
C21_ClearRing ==
    op = "clear_ring" =>
        /\ Len(prev.ring) \in {0, 1, 2}
        /\ result = Ok(None)
        /\ ring = << >>
        /\ clear_ring(ring) = << >>
        /\ boxers = prev.boxers

\* clear_ring was called on an empty ring while the table has a row that
\* counted a fight
C21_Witness ==
    /\ op = "clear_ring"
    /\ prev.ring = << >>
    /\ ring = << >>
    /\ result = Ok(None)
    /\ \E i \in DOMAIN boxers : boxers[i].fights > 0

(* C22: every row of the table has a name that is not the empty string:  *)
(* no create_boxer call inserts a row whose name is "".                  *)
C22_NonEmptyNames ==
    \A i \in DOMAIN boxers : boxers[i].name # ""

\* the update of the winner was made and the update of the loser raised
LoserUpdateFailed == FightUpdateFailed /\ Len(calls) = 3

\* the update of the winner raised
WinnerUpdateFailed == FightUpdateFailed /\ Len(calls) = 2

\* the claim as it was made: after the failed update of the loser, the row
\* of the loser is as it was before the fight, for every pair of occupants
C23_AsClaimed ==
    LoserUpdateFailed =>
        LET w == calls[2][2]
            l == calls[3][2]
        IN  /\ boxers[w].fights = prev.boxers[w].fights + 1
            /\ boxers[w].wins = prev.boxers[w].wins + 1
            /\ l \in DOMAIN prev.boxers =>
                  /\ boxers[l].fights = prev.boxers[l].fights
                  /\ boxers[l].wins = prev.boxers[l].wins
            /\ ring = prev.ring

(* C23: fight takes nothing back. When the update of the winner is made  *)
(* and the update of the loser then raises, the table is the one before  *)
(* the fight with 1 added to the fight count and the win count of the    *)
(* winner's row and nothing else changed, and the ring stays full: the   *)
(* row of the loser is as it was when the loser is another boxer, and is *)
(* the winner's row, with the win counted, when one boxer holds both     *)
(* positions. When the update of the winner raises, the update of the    *)
(* loser is not attempted, no row changes and the ring stays full.       *)
C23_NoRollback ==
    /\ LoserUpdateFailed =>
          LET w == calls[2][2]
              l == calls[3][2]
          IN  /\ calls[2] = UpdateCall(w, "win")
              /\ calls[3] = UpdateCall(l, "loss")
              /\ boxers = [prev.boxers EXCEPT ![w].fights = @ + 1,
                                              ![w].wins = @ + 1]
              /\ (l # w /\ l \in DOMAIN prev.boxers) =>
                    boxers[l] = prev.boxers[l]
              /\ ring = prev.ring
              /\ Len(ring) = 2
    /\ WinnerUpdateFailed =>
          /\ calls[2][3] = "win"
          /\ boxers = prev.boxers
          /\ ring = prev.ring
          /\ Len(ring) = 2

\* between two different boxers, the store raised in the update of the
\* loser after the win was counted
C23_Witness ==
    /\ LoserUpdateFailed
    /\ result = StorageError
    /\ calls[2][2] # calls[3][2]
    /\ calls[3][2] \in DOMAIN boxers
    /\ boxers[calls[2][2]].wins = prev.boxers[calls[2][2]].wins + 1
    /\ boxers[calls[3][2]] = prev.boxers[calls[3][2]]

RECURSIVE SumOver(_, _)
\* the sum of count[i] over the identifiers i of S
SumOver(count, S) ==
    IF S = {} THEN 0
    ELSE LET i == CHOOSE j \in S : TRUE
         IN  count[i] + SumOver(count, S \ {i})

TotalFights(db) == SumOver([i \in DOMAIN db |-> db[i].fights], DOMAIN db)

TotalWins(db) == SumOver([i \in DOMAIN db |-> db[i].wins], DOMAIN db)

(* C24: every fight that returns a winner raises the sum of the fight    *)
(* counts over all rows by exactly 2 and the sum of the win counts by    *)
(* exactly 1, for every pair of occupants, also when one boxer holds     *)
(* both positions of the ring.                                           *)
C24_FightTotals ==
    FightReturned =>
        /\ DOMAIN boxers = DOMAIN prev.boxers
        /\ TotalFights(boxers) = TotalFights(prev.boxers) + 2
        /\ TotalWins(boxers) = TotalWins(prev.boxers) + 1

\* one boxer entered twice, fought and has two more fights and one more win
C24_Witness ==
    /\ FightReturned
    /\ prev.ring[1].id = prev.ring[2].id
    /\ boxers[prev.ring[1].id].fights = prev.boxers[prev.ring[1].id].fights + 2
    /\ boxers[prev.ring[1].id].wins = prev.boxers[prev.ring[1].id].wins + 1

\* the operations of the repository
RepositoryOps ==
    { "create_boxer", "delete_boxer", "update_boxer_stats",
      "get_boxer_by_id", "get_boxer_by_name", "get_leaderboard" }

\* the ring was full when the call was made, with an occupant whose row
\* had been deleted
FullWithDeleted ==
    /\ Len(prev.ring) = 2
    /\ \E k \in 1..2 : prev.ring[k].id \notin DOMAIN prev.boxers

(* C25: create_boxer, delete_boxer and update_boxer_stats (and the       *)
(* getters) never change the ring, so a boxer whose row is deleted while *)
(* in the ring remains an occupant; a fight on a full ring with such an  *)
(* occupant fails with 'Boxer with ID ... not found.' and leaves the     *)
(* ring full; and such a ring changes only by clear_ring, which empties  *)
(* it. (The fight ends otherwise only when the store raises, and the     *)
(* ring stays full then too.)                                            *)
C25_RingFrame ==
    /\ op \in RepositoryOps => ring = prev.ring
    /\ (op = "fight" /\ FullWithDeleted) =>
          /\ result \in {ValueError(NotFoundMsg), StorageError}
          /\ ring = prev.ring
    /\ (FullWithDeleted /\ ring # prev.ring) =>
          (op = "clear_ring" /\ ring = << >>)

\* the row of the boxer at position 0 was deleted; the fight drew a value
\* that made that boxer the winner and failed, with the ring still full
C25_Witness ==
    /\ op = "fight"
    /\ FullWithDeleted
    /\ prev.ring[1].id \in prev.hist.deleted
    /\ prev.ring[2].id \in DOMAIN prev.boxers
    /\ calls[Len(calls)] = UpdateCall(prev.ring[1].id, "win")
    /\ result = ValueError(NotFoundMsg)
    /\ ring = prev.ring
    /\ boxers = prev.boxers

\* a random draw under 0.5
LowDraw(r) == 2 * r < Scale

(* C26: with a random draw r < 0.5 the boxer who entered the ring first  *)
(* wins, whichever of the two has the higher skill: in every fight on a  *)
(* full ring with such a draw the boxer at position 0 is the winner, and *)
(* the fight of the same two boxers entered in the opposite order, with  *)
(* the same r, has the other boxer as its winner.                        *)
C26_EntryOrder ==
    (FightProceeded /\ Len(prev.ring) = 2 /\ LowDraw(calls[1][2])) =>
        LET first == prev.ring[1]
            second == prev.ring[2]
            opposite == fight(prev.boxers, <<second, first>>, calls[1][2], 0)
        IN  /\ calls[2] = UpdateCall(first.id, "win")
            /\ result.kind = "ok" => result.value = first.name
            /\ opposite.calls[1] = calls[1]
            /\ opposite.calls[2] = UpdateCall(second.id, "win")
            /\ opposite.result.kind = "ok" => opposite.result.value = second.name
            /\ result.kind = "ok" => opposite.result.kind = "ok"

\* with a draw just under 0.5, the first entrant won against a boxer of a
\* higher skill
C26_Witness ==
    /\ FightReturned
    /\ LowDraw(calls[1][2])
    /\ calls[1][2] > 0
    /\ get_fighting_skill(prev.ring[1]) < get_fighting_skill(prev.ring[2])
    /\ prev.ring[1].name # prev.ring[2].name
    /\ result.value = prev.ring[1].name

====
